---- MODULE Spec2Model ----
(***************************************************************************)
(* A model of src/main.py: the top-level flows (Crawler.run and the        *)
(* ShopeeWeb / MomoWeb exec* flows) as one sequential program-counter      *)
(* machine, and the element handle (BoundElement) with the fault-trapping  *)
(* executor (trapMethod) as a second machine; ShopeeWeb.click and           *)
(* claimCoupon over the elements they meet as a third.  main()'s default   *)
(* path (ShopeeWeb().run(), then MomoWeb().run()) chains two flows.        *)
(***************************************************************************)
EXTENDS Integers, Sequences, FiniteSets, TLC

VARIABLES
    flow,       \* the top-level flow being executed
    pc,         \* position of the single thread of control inside the flow
    env,        \* what the site will do: stored cookie, credentials, SMS challenge
    avatar,     \* the logged-in indicator (.shopee-avatar) is present on the page
    smsModal,   \* the one-time-code prompt is present on the page
    driver,     \* "open" | "closed": the browser session
    trace,      \* history: the methods executed so far, in order
    chk,        \* history: the results of the login checks, in order
    sms,        \* the one-time-code stage: "none" | "waiting" | "good" | "bad" | "eof"
    loggedin,   \* ShopeeWeb.loggedin, set by context()
    pending,    \* an exception is propagating through context()'s finally
    action,     \* outcome of the claim action: "none" | "ok" | "failed" | "raised"
    result,     \* what the caller of the flow observes: "none" while running
    found,      \* execClaimCoupon: the count claimCoupon returned last
    last_found, \* execClaimCoupon: the count the later ones are compared with
    repeat,     \* execClaimCoupon: the stability counter
    last_value, \* claimCoin: the coin text read last in the loop (-1 for '')
    height,     \* listSales: the page height measured last
    last_height, \* listSales: the page height measured before
    samples,    \* history: the values sampled by the loop of the flow, in order
    reported,   \* the coin value the flow logged at its end (-1: none)
    rounds,     \* execClaimCoupon: number of times the user asked for more
    budget,     \* the timeout the last wait for the logged-in indicator ran with (-1: none yet)
    main,       \* "flow": one flow is run by its name; "shopee" / "momo": main's default path
    others,     \* browser sessions of earlier objects that are still open
    h,          \* the element handle (a BoundElement) operations are called on
    origin,     \* the operation that produced h
    last,       \* the last operation on h: receiver before it, arguments, outcome
    stale,      \* the element h refers to is no longer attached to the page
    nops,       \* number of operations performed on handles
    cop,        \* "claimCoupon" | "click": the operation applied to the coupons
    coupons,    \* the elements the operation meets, each by what it will do
    visited,    \* history: what the operation did with each element, in order
    good,       \* the local `good` of claimCoupon
    returned    \* "no" while running, then "value" or "raise"

loopVars == <<found, last_found, repeat, last_value, height, last_height,
              samples, reported, rounds>>

mainVars == <<budget, main, others>>

flowVars == <<flow, pc, env, avatar, smsModal, driver, trace, chk, sms,
              loggedin, pending, action, result, loopVars, mainVars>>

elemVars == <<h, origin, last, stale, nops>>

couponVars == <<cop, coupons, visited, good, returned>>

vars == <<flowVars, elemVars, couponVars>>

------------------------------------------------------------------------------
(* The flows and the environments they can run in *)

ExecFlows == {"execClaimCoin", "execClaimCoupon", "execListSales", "execDailyTask"}
LoginFlows == {"execClaimCoin", "execClaimCoupon"}
Flows == {"Crawler.run"} \cup ExecFlows

\* cookie: the stored cookie file is absent, loads but is expired, or is valid
\* creds:  the site accepts the stored user name and password
\* otp:    the site asks for a one-time code after the credentials
\* signal: the value a loop samples is "free" to stay or change from one
\*         sample to the next, or is "changing" at every sample
Envs == [cookie : {"absent", "stale", "valid"}, creds : BOOLEAN, otp : BOOLEAN,
         signal : {"free", "changing"}]

\* first position of each flow
Entry(f) ==
    CASE f = "Crawler.run" -> "getURL"
      [] f \in LoginFlows -> "login"
      [] OTHER -> "body"

\* the locals of the loops before any of them is entered
LoopIdle ==
    /\ found = 0 /\ last_found = -1 /\ repeat = 0
    /\ last_value = -1
    /\ height = -1 /\ last_height = -1
    /\ samples = <<>> /\ reported = -1 /\ rounds = 0

InitFlow ==
    /\ flow \in Flows
    /\ pc = Entry(flow)
    /\ env \in Envs
    /\ (flow # "Crawler.run" => (~env.creds /\ ~env.otp))
    /\ (flow \in {"Crawler.run", "execDailyTask"} => env.signal = "free")
    /\ LoopIdle
    /\ budget = -1
    /\ main \in {"flow", "shopee"}
    /\ (main = "shopee" => flow = "execClaimCoin")
    /\ others = 0
    /\ avatar = FALSE
    /\ smsModal = FALSE
    /\ driver = "open"
    /\ trace = <<>>
    /\ chk = <<>>
    /\ sms = "none"
    /\ loggedin = FALSE
    /\ pending = FALSE
    /\ action = "none"
    /\ result = "none"

Count(ev) == Cardinality({i \in DOMAIN trace : trace[i] = ev})

------------------------------------------------------------------------------
(* Crawler: helpers *)

\* a step of the flow that returns normally and goes on at position next
Step(ev, next) ==
    /\ trace' = trace \o ev
    /\ pc' = next
    /\ UNCHANGED <<driver, result>>

\* an exception leaves the flow with nothing to catch it
Uncaught(ev) ==
    /\ trace' = trace \o ev
    /\ pc' = "done"
    /\ result' = "uncaught"
    /\ UNCHANGED driver

\* a variant of CrawlerClose without sys.exit: close() returns to run(),
\* which goes on with saveCookie
CrawlerClose_Returns(ev) ==
    /\ trace' = trace \o ev \o <<"close">>
    /\ driver' = "closed"
    /\ pc' = "saveCookie"
    /\ UNCHANGED result

\* Crawler.close(): driver.close(), then sys.exit(0). SystemExit is not an
\* Exception, so no `except Exception` of the callers stops it, and close()
\* is never called inside a bare `except:` block's try body.
CrawlerClose(ev) ==
    /\ trace' = trace \o ev \o <<"close">>
    /\ driver' = "closed"
    /\ result' = "exit0"
    /\ pc' = "done"

\* Crawler.checkLogin(): waitForClass("AVATAR") returns iff the indicator is
\* present within the timeout; every exception is turned into False
CheckLogin == avatar

\* variants of the branches below: a run that tries the next login stage, or
\* goes on to the coin page, whatever the check said
AfterCheck1_AlwaysPass(ok) == "loginByPass"
AfterCheck2_AlwaysSMS(ok) == "checkSMS"
AfterCheck3_NeverClose(ok) == "saveCookie"

\* Crawler.run lines 669-678: where the run goes after each login check
AfterCheck1(ok) == IF ok THEN "saveCookie" ELSE "loginByPass"
AfterCheck2(ok) == IF ok THEN "saveCookie" ELSE "checkSMS"
AfterCheck3(ok) == IF ok THEN "saveCookie" ELSE "close"

------------------------------------------------------------------------------
(* Crawler.run, one action per call it makes *)

\* line 665: self.getURL("HOME_URL"), outside every try block
RunGetURL ==
    /\ flow = "Crawler.run" /\ pc = "getURL"
    /\ \E fault \in BOOLEAN :
          IF fault THEN Uncaught(<<"getURL">>)
                   ELSE Step(<<"getURL">>, "checkPopModal")
    /\ UNCHANGED <<elemVars, couponVars, mainVars, loopVars, flow, env, avatar, smsModal, chk, sms, loggedin, pending, action>>

\* line 666: checkPopModal() swallows everything
RunCheckPopModal ==
    /\ flow = "Crawler.run" /\ pc = "checkPopModal"
    /\ Step(<<"checkPopModal">>, "loginByCookie")
    /\ UNCHANGED <<elemVars, couponVars, mainVars, loopVars, flow, env, avatar, smsModal, chk, sms, loggedin, pending, action>>

\* line 668: loginByCookie(): load the cookie and refresh; a missing file is
\* logged and swallowed
RunLoginByCookie ==
    /\ flow = "Crawler.run" /\ pc = "loginByCookie"
    /\ avatar' = (env.cookie = "valid")
    /\ Step(<<"loginByCookie">>, "checkLogin1")
    /\ UNCHANGED <<elemVars, couponVars, mainVars, loopVars, flow, env, smsModal, chk, sms, loggedin, pending, action>>

\* line 669
RunCheckLogin1 ==
    /\ flow = "Crawler.run" /\ pc = "checkLogin1"
    /\ chk' = Append(chk, CheckLogin)
    /\ Step(<<"checkLogin">>, AfterCheck1(CheckLogin))
    /\ UNCHANGED <<elemVars, couponVars, mainVars, loopVars, flow, env, avatar, smsModal, sms, loggedin, pending, action>>

\* what the page shows once the credentials have been submitted
CredsAvatar == env.creds /\ ~env.otp
CredsSmsModal == env.creds /\ env.otp

\* line 671: loginByPass(): two try blocks, each handler ends in close()
RunLoginByPass ==
    /\ flow = "Crawler.run" /\ pc = "loginByPass"
    /\ \E modal \in BOOLEAN, form \in BOOLEAN :
          IF ~modal
          THEN \* lines 591-593: the login modal did not show
               /\ CrawlerClose(<<"loginByPass", "passFailed">>)
               /\ UNCHANGED <<avatar, smsModal>>
          ELSE IF ~form
          THEN \* lines 604-607: a field is missing or a key press failed
               /\ CrawlerClose(<<"loginByPass", "passFailed">>)
               /\ UNCHANGED <<avatar, smsModal>>
          ELSE \* lines 596-603: the credentials were submitted
               /\ avatar' = CredsAvatar
               /\ smsModal' = CredsSmsModal
               /\ Step(<<"loginByPass", "submit">>, "checkLogin2")
    /\ UNCHANGED <<elemVars, couponVars, mainVars, loopVars, flow, env, chk, sms, loggedin, pending, action>>

\* line 672
RunCheckLogin2 ==
    /\ flow = "Crawler.run" /\ pc = "checkLogin2"
    /\ chk' = Append(chk, CheckLogin)
    /\ Step(<<"checkLogin">>, AfterCheck2(CheckLogin))
    /\ UNCHANGED <<elemVars, couponVars, mainVars, loopVars, flow, env, avatar, smsModal, sms, loggedin, pending, action>>

\* line 673, checkSMS() up to the input() of line 617. getByClass is guarded:
\* a missing text box or button yields False and only fails after the input()
RunCheckSMS ==
    /\ flow = "Crawler.run" /\ pc = "checkSMS"
    /\ \E fault \in BOOLEAN :
          IF smsModal /\ ~fault
          THEN \* lines 612-617: the prompt is there, ask for the code
               /\ sms' = "waiting"
               /\ Step(<<"checkSMS">>, "smsInput")
          ELSE \* line 634: no prompt (Timeout) or a lookup raised
               /\ sms' = sms
               /\ Step(<<"checkSMS", "noSMS">>, "checkLogin3")
    /\ UNCHANGED <<elemVars, couponVars, mainVars, loopVars, flow, env, avatar, smsModal, chk, loggedin, pending, action>>

\* a variant of SmsFailed in which the except of line 634 is a bare one: it
\* swallows the SystemExit of close() and checkSMS returns to run
SmsFailed_BareExcept(ev, handlerFault) ==
    /\ trace' = trace \o ev \o <<"smsFailed", "close", "noSMS">>
    /\ driver' = "closed"
    /\ pc' = "checkLogin3"
    /\ UNCHANGED result

\* checkSMS lines 625-633: the handler that reports the failed code, then
\* close(); a fault inside the handler (reading smsError.text of a detached
\* element) is an Exception, which line 634 swallows ("noSMS" is its log line)
SmsFailed(ev, handlerFault) ==
    IF handlerFault
    THEN Step(ev \o <<"smsFailed", "noSMS">>, "checkLogin3")
    ELSE CrawlerClose(ev \o <<"smsFailed">>)

\* checkSMS() from the return of input() on
RunSmsInput ==
    /\ flow = "Crawler.run" /\ pc = "smsInput"
    /\ \E code \in {"good", "bad", "eof"}, typed \in BOOLEAN, handlerFault \in BOOLEAN :
          IF code = "eof" \/ ~typed
          THEN \* input() or clear/send_keys/click raised: line 634 swallows it
               /\ sms' = "eof"
               /\ avatar' = avatar
               /\ Step(<<"noSMS">>, "checkLogin3")
          ELSE \* lines 618-624: the code is submitted, wait for the indicator
               /\ sms' = code
               /\ avatar' = (code = "good")
               /\ IF code = "good"
                  THEN Step(<<"submitSMS">>, "checkLogin3")
                  ELSE SmsFailed(<<"submitSMS">>, handlerFault)
    /\ UNCHANGED <<elemVars, couponVars, mainVars, loopVars, flow, env, smsModal, chk, loggedin, pending, action>>

\* line 674
RunCheckLogin3 ==
    /\ flow = "Crawler.run" /\ pc = "checkLogin3"
    /\ chk' = Append(chk, CheckLogin)
    /\ Step(<<"checkLogin">>, AfterCheck3(CheckLogin))
    /\ UNCHANGED <<elemVars, couponVars, mainVars, loopVars, flow, env, avatar, smsModal, sms, loggedin, pending, action>>

\* line 678: saveCookie() logs and swallows a failed write
RunSaveCookie ==
    /\ flow = "Crawler.run" /\ pc = "saveCookie"
    /\ Step(<<"saveCookie">>, "clickCoin")
    /\ UNCHANGED <<elemVars, couponVars, mainVars, loopVars, flow, env, avatar, smsModal, chk, sms, loggedin, pending, action>>

\* line 679: clickCoin(); the inner bare except only covers the "already
\* claimed" case, the outer handler ends in close(); the coin text is read
\* before the click (line 648, when there is something to claim) and once
\* after it (line 659), and that one is the value logged
RunClickCoin ==
    /\ flow = "Crawler.run" /\ pc = "clickCoin"
    /\ \E ok \in BOOLEAN, claimable \in BOOLEAN, before \in {10, 11}, after \in {10, 11} :
          IF ok THEN /\ action' = "ok"
                     /\ samples' = (IF claimable THEN <<before>> ELSE <<>>) \o <<after>>
                     /\ reported' = after
                     /\ Step(<<"clickCoin">>, "close")
                ELSE /\ action' = "failed"
                     /\ before = 10 /\ after = 10 /\ ~claimable
                     /\ CrawlerClose(<<"clickCoin">>)
                     /\ UNCHANGED <<samples, reported>>
    /\ UNCHANGED <<found, last_found, repeat, last_value, height, last_height, rounds>>
    /\ UNCHANGED <<elemVars, couponVars, mainVars, flow, env, avatar, smsModal, chk, sms, loggedin, pending>>

\* lines 676 and 680: self.close()
RunClose ==
    /\ flow = "Crawler.run" /\ pc = "close"
    /\ CrawlerClose(<<>>)
    /\ UNCHANGED <<elemVars, couponVars, mainVars, loopVars, flow, env, avatar, smsModal, chk, sms, loggedin, pending, action>>

CrawlerNext ==
    \/ RunGetURL \/ RunCheckPopModal \/ RunLoginByCookie \/ RunCheckLogin1
    \/ RunLoginByPass \/ RunCheckLogin2 \/ RunCheckSMS \/ RunSmsInput
    \/ RunCheckLogin3 \/ RunSaveCookie \/ RunClickCoin \/ RunClose

------------------------------------------------------------------------------
(* Clicks and coupons: what ShopeeWeb.click and claimCoupon do with an element *)

\* largest number of coupons on the page
MaxBatch == 3

\* what an element will do when the operation gets to it
ClickKinds == {"claimable", "intercepted", "interceptedHard", "clickError"}
CouponKinds == ClickKinds \cup {"visited", "noName", "textOnly", "volatile"}

Batches == UNION {[1..n -> CouponKinds] : n \in 0..MaxBatch}

\* what was done with one element: ret is what the step delivered ("True",
\* "False", "None" or "raise"), fallbacks the number of ActionChains clicks
\* attempted, said the line printed
Did(ret, fallbacks, said) == [ret |-> ret, fallbacks |-> fallbacks, said |-> said]

\* a variant of TryClick whose ElementClickInterceptedException handler makes
\* no second attempt and lets the exception go on
TryClick_NoFallback(kind, what) ==
    CASE kind = "claimable" -> Did("True", 0, what \o " clicked!")
      [] kind \in {"intercepted", "interceptedHard"} -> Did("raise", 0, "")
      [] OTHER -> Did("True", 0, "not clickable")

\* lines 804-814 and 867-877: try: click() / except
\* ElementClickInterceptedException: one ActionChains click, whose own
\* exception is raised inside the handler and so passes the `except
\* Exception` next to it / except Exception: print
TryClick(kind, what) ==
    CASE kind = "claimable" -> Did("True", 0, what \o " clicked!")
      [] kind = "intercepted" -> Did("True", 1, what \o " clicked by ActionChains!")
      [] kind = "interceptedHard" -> Did("raise", 1, "")
      [] OTHER -> Did("True", 0, "not clickable")

\* the inner claim(self, coupon), lines 845-886
Claim(kind) ==
    CASE kind \in ClickKinds -> TryClick(kind, "Button")
      [] kind = "visited" -> Did("True", 0, "button")
      [] kind = "noName" -> Did("False", 0, "No name, Keep going!")
      [] kind = "textOnly" -> Did("True", 0, "text")
      [] OTHER -> Did("raise", 0, "")

\* the count claimCoupon returns for a batch
RECURSIVE ClaimCoupon(_)
ClaimCoupon(batch) ==
    IF batch = <<>> THEN 0
    ELSE ClaimCoupon(Tail(batch)) + (IF Claim(Head(batch)).ret = "raise" THEN 0 ELSE 1)

------------------------------------------------------------------------------
(* ShopeeWeb.context / login and the exec* flows *)

\* lines 816-820; scrollPause is 0.5 s, kept here in tenths of a second, and
\* int() of the quotient of two positive numbers is the integer quotient
scrollPauseTenths == 5
scrollTimes == 2
scrollPeriod == 5
repeatTimes == (scrollPeriod * 10) \div (scrollPauseTenths * scrollTimes)
maxCoupons == 5

\* Config.WAIT_TIMEOUT (line 79), the value of BoundElement.TIMEOUT (line 376)
\* and of ShopeeWeb.TIMEOUT (line 700)
TIMEOUT == 5

\* the timeout a flow passes to context(): the default of line 767 in
\* execClaimCoin (line 955), 15 in execClaimCoupon (line 962); login() hands
\* it on to both of its waitLogin calls (lines 753 and 759)
ContextTimeout(f) == IF f = "execClaimCoupon" THEN 15 ELSE TIMEOUT

\* wait() line 443: _timeout = timeout if timeout else self.timeout, where
\* None is -1
WaitBudget(timeout, own) == IF timeout \notin {-1, 0} THEN timeout ELSE own

\* waitLogin(timeout) lines 746-747: a handle constructed with the default
\* timeout of __init__ (line 382), wait() called with a trapFunction and no
\* timeout; the parameter is not used
WaitLoginBudget(timeout) == WaitBudget(-1, TIMEOUT)

\* an exception raised inside context()'s try: the finally clause runs next
Raise(ev) ==
    /\ trace' = trace \o ev
    /\ pending' = TRUE
    /\ pc' = "quit"
    /\ UNCHANGED <<driver, result>>

\* a variant of WaitLogin that reports the indicator whatever the page shows
WaitLogin_AlwaysTrue(present) == TRUE

\* ShopeeWeb.waitLogin(): wait(trapFunction=_trapTimeout) turned into a bool
WaitLogin(present) == present

\* a variant of LoginEvents that saves the cookie whatever waitLogin returned
LoginEvents_SaveAlways(ok) == <<"waitLogin", "saveCookie">>

\* login() lines 753-764: the cookie is saved after a successful waitLogin
LoginEvents(ok) == IF ok THEN <<"waitLogin", "saveCookie">> ELSE <<"waitLogin">>

\* context() line 769 / login() lines 751-755: preload the cookie, open the
\* page, first waitLogin
ShopeeLogin ==
    /\ flow \in LoginFlows /\ pc = "login"
    /\ \E fault \in BOOLEAN :
          IF fault
          THEN \* getURL or the wait raised something that is no Timeout
               /\ Raise(<<"preloadCookie", "getURL">>)
               /\ UNCHANGED <<avatar, chk, loggedin, budget>>
          ELSE LET present == (env.cookie = "valid")
                   ok == WaitLogin(present)
               IN /\ avatar' = present
                  /\ chk' = Append(chk, ok)
                  /\ loggedin' = ok
                  /\ budget' = WaitLoginBudget(ContextTimeout(flow))
                  /\ trace' = trace \o <<"preloadCookie", "getURL">> \o LoginEvents(ok)
                  /\ pc' = IF ok THEN "body" ELSE "loginInput"
                  /\ UNCHANGED <<driver, result, pending>>
    /\ UNCHANGED <<elemVars, couponVars, main, others, loopVars, flow, env, smsModal, sms, action>>

\* login() lines 757-764: the user is asked to log in by hand, second waitLogin
ShopeeLoginManual ==
    /\ flow \in LoginFlows /\ pc = "loginInput"
    /\ \E did \in BOOLEAN, fault \in BOOLEAN :
          IF fault
          THEN /\ Raise(<<"input">>)
               /\ UNCHANGED <<avatar, chk, loggedin, budget>>
          ELSE LET ok == WaitLogin(did)
               IN /\ avatar' = did
                  /\ chk' = Append(chk, ok)
                  /\ loggedin' = ok
                  /\ budget' = WaitLoginBudget(ContextTimeout(flow))
                  /\ trace' = trace \o <<"input">> \o LoginEvents(ok)
                  /\ pc' = "body"
                  /\ UNCHANGED <<driver, result, pending>>
    /\ UNCHANGED <<elemVars, couponVars, main, others, loopVars, flow, env, smsModal, sms, action>>

\* a step inside the with / try body that goes on at position next
Goto(ev, next) ==
    /\ trace' = trace \o ev
    /\ pc' = next
    /\ UNCHANGED <<pending, driver, result>>

\* what no step of a body touches
BodyFrame == UNCHANGED <<elemVars, couponVars, mainVars, flow, env, avatar, smsModal, chk, sms, loggedin>>

\* length of the history of samples that is kept
MaxIters == 7
\* number of times the user of execClaimCoupon asks for another round
MaxRounds == 1

RecordAll(new) ==
    LET all == samples \o new
    IN SubSeq(all, 1, IF Len(all) < MaxIters THEN Len(all) ELSE MaxIters)
Record(x) == RecordAll(<<x>>)

\* the texts the coin counter shows, the heights the page takes
CoinTexts == {10, 11}
Heights == {100, 200}

\* claimCoin lines 781-799 with coin_button the outcome of the wait before:
\* "False" has no .text (AttributeError); "claim" ('簽到' in the text) is
\* clicked and waited for again, and a False from that wait has no .spawn;
\* then the coin value is looked up, and the loop begins with last_value = ''
ClaimCoinFrom(b, ev) ==
    \E again \in BOOLEAN, value \in BOOLEAN :
        IF b = "False" \/ (b = "claim" /\ ~again)
        THEN /\ Raise(ev \o <<"AttributeError">>)
             /\ action' = "raised"
             /\ UNCHANGED loopVars
        ELSE IF value
        THEN /\ Goto(ev \o (IF b = "claim" THEN <<"coinClicked">> ELSE <<>>), "coinLoop")
             /\ last_value' = -1
             /\ UNCHANGED <<action, found, last_found, repeat, height, last_height,
                            samples, reported, rounds>>
        ELSE /\ Goto(ev \o (IF b = "claim" THEN <<"coinClicked">> ELSE <<>>), "coinClose")
             /\ action' = "failed"
             /\ UNCHANGED loopVars

\* execClaimCoin lines 956-957 and claimCoin lines 775-780: nothing is done
\* when not logged in; no coin button returns False; a button that says
\* '登入' is clicked and the user is asked to log in
ClaimCoinButton ==
    /\ flow = "execClaimCoin" /\ pc = "body"
    /\ IF ~loggedin
       THEN Goto(<<>>, "quit") /\ UNCHANGED <<action, loopVars>>
       ELSE \E b \in {"absent", "login", "claim", "claimed"} :
               CASE b = "absent" -> /\ Goto(<<"claimCoin">>, "coinClose")
                                    /\ action' = "failed"
                                    /\ UNCHANGED loopVars
                 [] b = "login" -> /\ Goto(<<"claimCoin">>, "coinInput")
                                   /\ UNCHANGED <<action, loopVars>>
                 [] OTHER -> ClaimCoinFrom(b, <<"claimCoin">>)
    /\ BodyFrame

\* claimCoin lines 779-780: input() returns and the button is waited for again
ClaimCoinInput ==
    /\ flow = "execClaimCoin" /\ pc = "coinInput"
    /\ \E b \in {"False", "claim", "claimed"} : ClaimCoinFrom(b, <<"input">>)
    /\ BodyFrame

\* a variant of ValueSettled for a loop that never finds the value settled
ValueSettled_Never(text, before) == FALSE

\* line 792, the while test negated: the text read equals the one read before
ValueSettled(text, before) == text = before

\* claimCoin lines 792-795, one test of the while and what follows it: the
\* text is read for the test (t) and read again (a) for the assignment or,
\* once the test fails, for the log line
CoinIter ==
    /\ flow = "execClaimCoin" /\ pc = "coinLoop"
    /\ \E fault \in BOOLEAN, t \in CoinTexts, a \in CoinTexts :
          IF fault
          THEN /\ Raise(<<>>)
               /\ action' = "raised"
               /\ UNCHANGED loopVars
          ELSE /\ env.signal = "changing" => (t # last_value /\ a # t)
               /\ samples' = RecordAll(<<t, a>>)
               /\ IF ~ValueSettled(t, last_value)
                  THEN /\ last_value' = a
                       /\ Goto(<<>>, "coinLoop")
                       /\ UNCHANGED <<action, reported>>
                  ELSE /\ reported' = a
                       /\ action' = "ok"
                       /\ Goto(<<"coinLogged">>, "coinClose")
                       /\ UNCHANGED last_value
               /\ UNCHANGED <<found, last_found, repeat, height, last_height, rounds>>
    /\ BodyFrame

\* a variant of LoopTest that leaves out the bound maxCoupons puts on found
LoopTest_NoCap == found # last_found \/ repeat < repeatTimes

\* the loop test of execClaimCoupon, lines 970-971
LoopTest ==
    /\ (maxCoupons <= 0 \/ found < maxCoupons)
    /\ (found # last_found \/ repeat < repeatTimes)

\* a variant of NextRepeat that counts every turn
NextRepeat_NeverReset(sample, baseline, r) == r + 1

\* lines 976-980: repeat after a turn that sampled `sample`
NextRepeat(sample, baseline, r) == IF sample = baseline THEN r + 1 ELSE 0

\* the locals at the top of `while True`, lines 967-969
LoopReset ==
    /\ last_found' = -1
    /\ found' = 0
    /\ repeat' = 0
    /\ samples' = <<>>

\* the pages claimCoupon meets in the loop: no coupon, one, maxCoupons of them
LoopBatches ==
    {<<>>, <<"claimable">>, [i \in 1..maxCoupons |-> "claimable"]}

\* execClaimCoupon lines 963-966: nothing is done when not logged in; else
\* click() on the page, whose failed fallback leaves the flow
CouponStart ==
    /\ flow = "execClaimCoupon" /\ pc = "body"
    /\ IF ~loggedin
       THEN Goto(<<>>, "quit") /\ UNCHANGED action
       ELSE \E k \in ClickKinds \cup {"absent"} :
               IF k # "absent" /\ TryClick(k, "element").ret = "raise"
               THEN Raise(<<"click">>) /\ action' = "raised"
               ELSE Goto(<<"click">>, "couponInput") /\ UNCHANGED action
    /\ UNCHANGED loopVars
    /\ BodyFrame

\* lines 972-980, one turn of the inner while: scrollDown, claimCoupon, and
\* the comparison with last_found
CouponIter ==
    /\ flow = "execClaimCoupon" /\ pc = "couponLoop"
    /\ LoopTest
    /\ \E fault \in BOOLEAN, b \in LoopBatches :
          IF fault
          THEN /\ Raise(<<>>)
               /\ action' = "raised"
               /\ UNCHANGED loopVars
          ELSE /\ env.signal = "changing" => (samples = <<>> \/ ClaimCoupon(b) # found)
               /\ found' = ClaimCoupon(b)
               /\ repeat' = NextRepeat(found', last_found, repeat)
               /\ last_found' = found'
               /\ samples' = Record(found')
               /\ Goto(<<>>, "couponLoop")
               /\ UNCHANGED <<action, last_value, height, last_height, reported, rounds>>
    /\ BodyFrame

\* the inner while ends, line 981 prompts
CouponLoopExit ==
    /\ flow = "execClaimCoupon" /\ pc = "couponLoop"
    /\ ~LoopTest
    /\ Goto(<<>>, "couponPrompt")
    /\ UNCHANGED <<action, loopVars>>
    /\ BodyFrame

\* lines 981-987: the answer of the user: '' for another round, 'r' to load
\* the page again first, anything else to stop
CouponPrompt ==
    /\ flow = "execClaimCoupon" /\ pc = "couponPrompt"
    /\ \E cmd \in {"", "r", "q", "eof"}, k \in ClickKinds \cup {"absent"} :
          CASE cmd = "eof" -> /\ k = "absent"
                              /\ Raise(<<>>)
                              /\ UNCHANGED <<action, loopVars, budget>>
            [] cmd = "q" -> /\ k = "absent"
                            /\ Goto(<<"claimCoupon">>, "quit")
                            /\ action' = "ok"
                            /\ UNCHANGED <<loopVars, budget>>
            [] cmd = "r" /\ TryClick(k, "element").ret = "raise" ->
                            /\ rounds < MaxRounds
                            /\ Raise(<<>>)
                            /\ action' = "raised"
                            /\ budget' = WaitLoginBudget(15)
                            /\ UNCHANGED loopVars
            [] OTHER -> /\ rounds < MaxRounds
                        /\ cmd = "" => k = "absent"
                        /\ rounds' = rounds + 1
                        /\ LoopReset
                        /\ Goto(<<>>, "couponLoop")
                        /\ budget' = IF cmd = "r" THEN WaitLoginBudget(15) ELSE budget
                        /\ UNCHANGED <<action, last_value, height, last_height, reported>>
    /\ UNCHANGED <<elemVars, couponVars, main, others, flow, env, avatar, smsModal, chk, sms, loggedin>>

\* listSales lines 912-945: the page, the popup close button (wait trapped
\* by _trapWaitGet to False), reinit on what that wait returned, the
\* carousel button, the first item (wait not trapped), the first scrollDown
SalesOpen ==
    /\ flow = "execListSales" /\ pc = "body"
    /\ \E fault \in BOOLEAN, popup \in BOOLEAN, carousel \in BOOLEAN,
          items \in BOOLEAN, hgt \in Heights :
          LET ev == <<"getURL">> \o (IF popup THEN <<"popupClosed">> ELSE <<"noPopup">>)
              ev2 == ev \o (IF carousel THEN <<"carousel">> ELSE <<"noCarousel">>)
          IN IF fault
             THEN Raise(<<"getURL">>) /\ action' = "raised" /\ UNCHANGED loopVars
             ELSE IF ~popup
             THEN Raise(ev \o <<"AttributeError">>) /\ action' = "raised"
                  /\ UNCHANGED loopVars
             ELSE IF ~items
             THEN Raise(ev2 \o <<"TimeoutException">>) /\ action' = "raised"
                  /\ UNCHANGED loopVars
             ELSE /\ Goto(ev2 \o <<"items">>, "salesLoop")
                  /\ height' = hgt
                  /\ last_height' = -1
                  /\ samples' = <<hgt>>
                  /\ UNCHANGED <<action, found, last_found, repeat, last_value,
                                 reported, rounds>>
    /\ BodyFrame

\* lines 947-949, one turn of `while height != last_height`
SalesIter ==
    /\ flow = "execListSales" /\ pc = "salesLoop"
    /\ height # last_height
    /\ \E fault \in BOOLEAN, hgt \in Heights :
          IF fault
          THEN Raise(<<>>) /\ action' = "raised" /\ UNCHANGED loopVars
          ELSE /\ env.signal = "changing" => hgt # height
               /\ last_height' = height
               /\ height' = hgt
               /\ samples' = Record(hgt)
               /\ Goto(<<>>, "salesLoop")
               /\ UNCHANGED <<action, found, last_found, repeat, last_value,
                              reported, rounds>>
    /\ BodyFrame

\* lines 951-952: the items are printed once the height has stopped changing
SalesExit ==
    /\ flow = "execListSales" /\ pc = "salesLoop"
    /\ height = last_height
    /\ \E fault \in BOOLEAN :
          IF fault
          THEN Raise(<<"printSalesItems">>) /\ action' = "raised"
          ELSE Goto(<<"printSalesItems">>, "salesInput") /\ action' = "ok"
    /\ UNCHANGED loopVars
    /\ BodyFrame

\* input('Press <enter> ...') at lines 952, 958 and 966: the flow goes on
\* when the user answers; end of input raises EOFError
PressEnter ==
    /\ flow \in ExecFlows /\ pc \in {"coinClose", "salesInput", "couponInput"}
    /\ \E eof \in BOOLEAN :
          IF eof THEN Raise(<<"EOFError">>)
          ELSE Goto(<<>>, IF pc = "couponInput" THEN "couponLoop" ELSE "quit")
    /\ UNCHANGED <<action, loopVars>>
    /\ BodyFrame

\* MomoWeb.execDailyTask line 1082: the try body
PlainBody ==
    /\ flow = "execDailyTask" /\ pc = "body"
    /\ \E r \in {"ok", "raised"} :
          /\ action' = r
          /\ IF r = "raised"
             THEN Raise(<<"task">>)
             ELSE Goto(<<"task">>, "quit")
    /\ UNCHANGED loopVars
    /\ BodyFrame

\* a variant of Quit that leaves the finally clause without ending the
\* browser session
Quit_KeepsOpen ==
    /\ flow \in ExecFlows /\ pc = "quit"
    /\ trace' = trace \o <<"quit">>
    /\ result' = IF pending THEN "uncaught" ELSE "None"
    /\ pc' = "done"
    /\ UNCHANGED <<elemVars, couponVars, mainVars, loopVars, flow, env, avatar, smsModal, chk, sms, loggedin, pending, action, driver>>

\* context() lines 771-772, execListSales line 993, execDailyTask line 1084:
\* finally: self.driver.quit(); then the flow returns None or the pending
\* exception goes on to the caller
Quit ==
    /\ flow \in ExecFlows /\ pc = "quit"
    /\ trace' = trace \o <<"quit">>
    /\ driver' = "closed"
    /\ result' = IF pending THEN "uncaught" ELSE "None"
    /\ pc' = "done"
    /\ UNCHANGED <<elemVars, couponVars, mainVars, loopVars, flow, env, avatar, smsModal, chk, sms, loggedin, pending, action>>

\* main() lines 1096-1097, the default path: ShopeeWeb().run() has returned
\* (an exception out of it ends main), MomoWeb() constructs its own Driver
\* (line 1010) and run() enters execDailyTask; the session of the ShopeeWeb
\* object is counted if it is still open
MainMomo ==
    /\ main = "shopee" /\ pc = "done" /\ result = "None"
    /\ main' = "momo"
    /\ others' = others + (IF driver = "open" THEN 1 ELSE 0)
    /\ flow' = "execDailyTask"
    /\ pc' = Entry("execDailyTask")
    /\ env' \in {e \in Envs : ~e.creds /\ ~e.otp /\ e.signal = "free"}
    /\ driver' = "open"
    /\ trace' = <<>> /\ chk' = <<>> /\ sms' = "none"
    /\ avatar' = FALSE /\ smsModal' = FALSE
    /\ loggedin' = FALSE /\ pending' = FALSE
    /\ action' = "none" /\ result' = "none"
    /\ found' = 0 /\ last_found' = -1 /\ repeat' = 0
    /\ last_value' = -1 /\ height' = -1 /\ last_height' = -1
    /\ samples' = <<>> /\ reported' = -1 /\ rounds' = 0
    /\ budget' = -1
    /\ UNCHANGED <<elemVars, couponVars>>

ShopeeNext ==
    \/ ShopeeLogin \/ ShopeeLoginManual
    \/ ClaimCoinButton \/ ClaimCoinInput \/ CoinIter
    \/ CouponStart \/ CouponIter \/ CouponLoopExit \/ CouponPrompt
    \/ SalesOpen \/ SalesIter \/ SalesExit
    \/ PressEnter \/ PlainBody \/ Quit

------------------------------------------------------------------------------
(* BoundElement and trapMethod: values *)

\* number of operations performed on handles in one behaviour
MaxOps == 3
\* Python's None is "None" for names and -1 for a timeout
Drivers == {"d1", "d2"}
Methods == {"css", "xpath"}
Targets == {"a", "b", "z"}
Conditions == {"one", "all"}
Timeouts == {0, 2}
Messages == {"", "m"}
TrapFns == {"_trapTimeout", "_trapNoSuchElement", "_trapWaitGet"}

\* truth value of an argument in `if x:` / `x if x else y`
Truthy(x) == x \notin {"None", ""}
TruthyInt(n) == n > 0

\* the page: elements 1 and 2 match "a", element 3 is inside element 1 and
\* matches "b"; nothing matches "z"; session d2 shows a page with element 2 only.
\* scope 0 is the whole page (a lookup on the driver)
Match(drv, scope, method, target) ==
    CASE drv = "d1" /\ scope = 0 /\ target = "a" -> {1, 2}
      [] drv = "d1" /\ scope = 0 /\ target = "b" /\ method = "css" -> {3}
      [] drv = "d1" /\ scope = 1 /\ target = "b" -> {3}
      [] drv = "d2" /\ scope = 0 /\ target = "a" -> {2}
      [] OTHER -> {}

Min(S) == CHOOSE x \in S : \A y \in S : x <= y

RECURSIVE Sorted(_)
Sorted(S) == IF S = {} THEN <<>> ELSE <<Min(S)>> \o Sorted(S \ {Min(S)})

NoExc == [type |-> "None", msg |-> ""]
Exc(type, msg) == [type |-> type, msg |-> msg]

NoHandle ==
    [driver |-> "None", method |-> "None", target |-> "None", condition |-> "None",
     timeout |-> -1, message |-> "None", trapFunction |-> "None",
     bound |-> FALSE, id |-> 0]

NoArg ==
    [target |-> "None", method |-> "None", driver |-> "None", condition |-> "None",
     timeout |-> -1, message |-> "None", trapFunction |-> "None"]

\* what a call delivers: a handle, a list of handles, False, or an exception
RetHandle(x) == [kind |-> "handle", h |-> x, hs |-> <<>>, exc |-> NoExc]
RetList(xs) == [kind |-> "list", h |-> NoHandle, hs |-> xs, exc |-> NoExc]
RetFalse == [kind |-> "False", h |-> NoHandle, hs |-> <<>>, exc |-> NoExc]
Raised(e) == [kind |-> "raise", h |-> NoHandle, hs |-> <<>>, exc |-> e]
NoOut == [kind |-> "none", h |-> NoHandle, hs |-> <<>>, exc |-> NoExc]

------------------------------------------------------------------------------
(* BoundElement *)

\* __init__ (lines 381-384): reset() and reset_condition() leave the handle
\* unbound, with no element id
BoundElement(drv, method, target, condition, timeout, message, trapFunction) ==
    [driver |-> drv, method |-> method, target |-> target, condition |-> condition,
     timeout |-> timeout, message |-> message, trapFunction |-> trapFunction,
     bound |-> FALSE, id |-> 0]

\* reinit (lines 405-416): the target is always replaced, every other field
\* only by a truthy argument; the element id is left as it is
Reinit(x, a) ==
    [x EXCEPT !.target = a.target,
              !.method = IF Truthy(a.method) THEN a.method ELSE @,
              !.driver = IF Truthy(a.driver) THEN a.driver ELSE @,
              !.condition = IF Truthy(a.condition) THEN a.condition ELSE @,
              !.timeout = IF TruthyInt(a.timeout) THEN a.timeout ELSE @,
              !.message = IF Truthy(a.message) THEN a.message ELSE @,
              !.trapFunction = IF Truthy(a.trapFunction) THEN a.trapFunction ELSE @,
              !.bound = FALSE]

\* spawn_from (lines 423-429): a new handle with the base's seven fields,
\* bound to the element when one is given (el # 0)
SpawnFrom(base, el) ==
    LET new == BoundElement(base.driver, base.method, base.target, base.condition,
                            base.timeout, base.message, base.trapFunction)
    IN IF el # 0
       THEN [new EXCEPT !.bound = TRUE, !.id = el]
       ELSE new

\* a variant of Spawn that copies the source, its element reference and bound
\* flag included, and then applies the overrides
Spawn_CopySource(x, a) == [Reinit(x, a) EXCEPT !.bound = x.bound]

\* spawn (lines 418-421)
Spawn(x, a) == Reinit(SpawnFrom(x, 0), a)

\* bind_result (lines 431-437) for a list of elements and for one element
BindAll(x, els) == [i \in 1..Len(els) |-> SpawnFrom(x, els[i])]
\* a variant of BindOne whose new handle carries no trap function
BindOne_NoTrap(x, el) == [SpawnFrom(x, el) EXCEPT !.trapFunction = "None"]

BindOne(x, el) == SpawnFrom(x, el)

\* a variant of FindScope that looks up from the session root always
FindScope_Root(x) == 0

\* the scope a lookup of find / find_all runs in (lines 457-460, 470-473)
FindScope(x) == IF x.bound THEN x.id ELSE 0

\* a variant of WaitScope that waits within the element of a bound handle
WaitScope_Element(x) == IF x.bound THEN x.id ELSE 0

\* the scope the condition of wait is evaluated in (line 445):
\* WebDriverWait(self.driver, ...) hands the driver to the condition
WaitScope(x) == 0

\* a lookup under the element of a bound handle fails once it is detached
IsStale(x) == x.bound /\ stale

\* find (lines 453-462) before the trap: the first match, NoSuchElement for
\* no match, StaleElementReference for a lookup under a stale element
FindRaw(x, a) ==
    LET t == IF Truthy(a.target) THEN a.target ELSE x.target
        m == IF Truthy(a.method) THEN a.method ELSE x.method
        matches == Match(x.driver, FindScope(x), m, t)
    IN IF IsStale(x) THEN Raised(Exc("StaleElementReferenceException", ""))
       ELSE IF matches = {} THEN Raised(Exc("NoSuchElementException", ""))
       ELSE RetHandle(BindOne(x, Min(matches)))

\* find_all (lines 466-475) before the trap: find_elements yields an empty
\* list for no match, and bind_result maps a list to a list
FindAllRaw(x, a) ==
    LET t == IF Truthy(a.target) THEN a.target ELSE x.target
        m == IF Truthy(a.method) THEN a.method ELSE x.method
        matches == Match(x.driver, FindScope(x), m, t)
    IN IF IsStale(x) THEN Raised(Exc("StaleElementReferenceException", ""))
       ELSE RetList(BindAll(x, Sorted(matches)))

\* wait (lines 441-449) before the trap: WebDriverWait on self.driver, the
\* condition is evaluated on the whole page; Timeout carries the message
WaitRaw(x, a) ==
    LET c == IF Truthy(a.condition) THEN a.condition ELSE x.condition
        msg == IF Truthy(a.message) THEN a.message ELSE x.message
        matches == Match(x.driver, WaitScope(x), x.method, x.target)
    IN IF matches = {} THEN Raised(Exc("TimeoutException", msg))
       ELSE IF c = "all" THEN RetList(BindAll(x, Sorted(matches)))
       ELSE RetHandle(BindOne(x, Min(matches)))

\* .text and .click() (used at lines 782-786, 793, 915 and elsewhere) are the
\* methods BoundElement inherits from WebElement: the command goes to the
\* element id the handle holds, whatever its bound flag says; no id gives an
\* error of the session, a detached element StaleElementReference
Acted == [kind |-> "acted", h |-> NoHandle, hs |-> <<>>, exc |-> NoExc]

UseRaw(x) ==
    IF x.id = 0 THEN Raised(Exc("WebDriverException", ""))
    ELSE IF stale THEN Raised(Exc("StaleElementReferenceException", ""))
    ELSE Acted

------------------------------------------------------------------------------
(* trapMethod and the trap functions *)

\* the exception types a trap function turns into False (lines 719-743)
Handled(trapFunction) ==
    CASE trapFunction = "_trapTimeout" -> {"TimeoutException"}
      [] trapFunction = "_trapNoSuchElement" ->
            {"NoSuchElementException", "StaleElementReferenceException"}
      [] trapFunction = "_trapWaitGet" -> {"TimeoutException", "NoSuchElementException"}
      [] OTHER -> {}

\* a variant of TrapFunction that turns every exception into False
TrapFunction_Swallow(trapFunction, e) == RetFalse

\* _trapTimeout / _trapNoSuchElement / _trapWaitGet: False for a handled
\* exception, `raise exception` for any other
TrapFunction(trapFunction, e) ==
    IF e.type \in Handled(trapFunction) THEN RetFalse ELSE Raised(e)

\* a variant of EffectiveTrap without the default taken from the receiver
EffectiveTrap_CallOnly(callTrap, recvTrap) == callTrap

\* a variant of EffectiveTrap that prefers the receiver's trap function to the
\* one passed with the call
EffectiveTrap_ReceiverFirst(callTrap, recvTrap) ==
    IF Truthy(recvTrap) THEN recvTrap
    ELSE IF Truthy(callTrap) THEN callTrap
    ELSE "None"

\* lines 206-209: the trap function of a call: the one passed, else the
\* receiver's own, else none
EffectiveTrap(callTrap, recvTrap) ==
    IF Truthy(callTrap) THEN callTrap
    ELSE IF Truthy(recvTrap) THEN recvTrap
    ELSE "None"

\* lines 211-217: the outcome of the wrapped call
TrapMethod(callTrap, recvTrap, raw) ==
    LET tf == EffectiveTrap(callTrap, recvTrap)
    IN IF Truthy(tf) /\ raw.kind = "raise" THEN TrapFunction(tf, raw.exc) ELSE raw

\* the trap function invoked by the wrapped call, "None" when none was
TrapInvoked(callTrap, recvTrap, raw) ==
    IF raw.kind = "raise" THEN EffectiveTrap(callTrap, recvTrap) ELSE "None"

------------------------------------------------------------------------------
(* Operations on a handle, as actions *)

\* the arguments of reinit / spawn: a target, or target "b" and one more
\* argument (a falsy one among them: timeout 0, message "")
OneOverride ==
    {[NoArg EXCEPT !.method = m] : m \in Methods}
    \cup {[NoArg EXCEPT !.driver = "d2"]}
    \cup {[NoArg EXCEPT !.condition = "all"]}
    \cup {[NoArg EXCEPT !.timeout = t] : t \in Timeouts}
    \cup {[NoArg EXCEPT !.message = m] : m \in Messages}
    \cup {[NoArg EXCEPT !.trapFunction = f] : f \in TrapFns}

ReinitArgs ==
    {[NoArg EXCEPT !.target = t] : t \in Targets}
    \cup {[o EXCEPT !.target = "b"] : o \in OneOverride}

\* the arguments of find / find_all: at most one of target and method, and a
\* trapFunction or none
FindArgs ==
    {[o EXCEPT !.trapFunction = f] :
        o \in {NoArg} \cup {[NoArg EXCEPT !.target = t] : t \in Targets}
                      \cup {[NoArg EXCEPT !.method = m] : m \in Methods},
        f \in TrapFns \cup {"None"}}

\* the arguments of wait: at most one of condition, timeout and message, and
\* a trapFunction or none
WaitArgs ==
    {[o EXCEPT !.trapFunction = f] :
        o \in {NoArg} \cup {[NoArg EXCEPT !.condition = c] : c \in Conditions}
                      \cup {[NoArg EXCEPT !.timeout = t] : t \in Timeouts}
                      \cup {[NoArg EXCEPT !.message = m] : m \in Messages},
        f \in TrapFns \cup {"None"}}

\* the arguments that differ from NoArg in the trapFunction at most
Plain(a) == [a EXCEPT !.trapFunction = "None"] = NoArg

\* the record of an operation
Op(name, a, raw, out, scope) ==
    [op |-> name, recv |-> h, arg |-> a, raw |-> raw, out |-> out, scope |-> scope,
     trap |-> TrapInvoked(a.trapFunction, h.trapFunction, raw)]

\* a fault of the session itself, which any lookup can raise
Glitch == Raised(Exc("WebDriverException", ""))

NoOp ==
    [op |-> "none", recv |-> NoHandle, arg |-> NoArg, raw |-> NoOut,
     out |-> NoOut, scope |-> -1, trap |-> "None"]

DoSpawn ==
    /\ flow = "none" /\ nops < MaxOps
    /\ \E a \in ReinitArgs :
          last' = Op("spawn", a, NoOut, RetHandle(Spawn(h, a)), -1)
    /\ nops' = nops + 1
    /\ UNCHANGED <<h, origin, stale, flowVars, couponVars>>

DoReinit ==
    /\ flow = "none" /\ nops < MaxOps
    /\ \E a \in ReinitArgs :
          /\ h' = Reinit(h, a)
          /\ last' = Op("reinit", a, NoOut, RetHandle(Reinit(h, a)), -1)
    /\ origin' = "reinit"
    /\ nops' = nops + 1
    /\ UNCHANGED <<stale, flowVars, couponVars>>

DoFind ==
    /\ flow = "none" /\ nops < MaxOps
    /\ \E a \in FindArgs, glitch \in BOOLEAN :
          /\ glitch => Plain(a)
          /\ LET raw == IF glitch THEN Glitch ELSE FindRaw(h, a)
             IN last' = Op("find", a, raw,
                           TrapMethod(a.trapFunction, h.trapFunction, raw), FindScope(h))
    /\ nops' = nops + 1
    /\ UNCHANGED <<h, origin, stale, flowVars, couponVars>>

DoFindAll ==
    /\ flow = "none" /\ nops < MaxOps
    /\ \E a \in FindArgs, glitch \in BOOLEAN :
          /\ glitch => Plain(a)
          /\ LET raw == IF glitch THEN Glitch ELSE FindAllRaw(h, a)
             IN last' = Op("find_all", a, raw,
                           TrapMethod(a.trapFunction, h.trapFunction, raw), FindScope(h))
    /\ nops' = nops + 1
    /\ UNCHANGED <<h, origin, stale, flowVars, couponVars>>

DoWait ==
    /\ flow = "none" /\ nops < MaxOps
    /\ \E a \in WaitArgs, glitch \in BOOLEAN :
          /\ glitch => Plain(a)
          /\ LET raw == IF glitch THEN Glitch ELSE WaitRaw(h, a)
             IN last' = Op("wait", a, raw,
                           TrapMethod(a.trapFunction, h.trapFunction, raw), WaitScope(h))
    /\ nops' = nops + 1
    /\ UNCHANGED <<h, origin, stale, flowVars, couponVars>>

\* h.text / h.click(): not wrapped by trapMethod, the element acted on is the
\* one whose id the handle holds
DoUse ==
    /\ flow = "none" /\ nops < MaxOps
    /\ \E name \in {"text", "click"} :
          last' = [Op(name, NoArg, UseRaw(h), UseRaw(h), h.id) EXCEPT !.trap = "None"]
    /\ nops' = nops + 1
    /\ UNCHANGED <<h, origin, stale, flowVars, couponVars>>

\* the caller goes on with a handle the last call returned
\* (x = x.wait(), x.spawn(...).find(), for e in x.find_all()); the reference
\* of a handle just bound is fresh
Adopt ==
    /\ flow = "none"
    /\ last.out.kind \in {"handle", "list"}
    /\ last.op # "reinit"
    /\ \E x \in (IF last.out.kind = "handle" THEN {last.out.h}
                 ELSE {last.out.hs[i] : i \in DOMAIN last.out.hs}) :
          h' = x
    /\ origin' = last.op
    /\ last' = NoOp
    /\ stale' = FALSE
    /\ UNCHANGED <<nops, flowVars, couponVars>>

\* the page is rendered anew: the element h refers to is detached, and so
\* are the elements of the handles the last call returned
Rerender ==
    /\ flow = "none"
    /\ h.id # 0 /\ ~stale
    /\ stale' = TRUE
    /\ last' = NoOp
    /\ UNCHANGED <<h, origin, nops, flowVars, couponVars>>

------------------------------------------------------------------------------
(* ShopeeWeb.click and ShopeeWeb.claimCoupon over the elements they meet *)

\* lines 888-897, one turn of `for coupon in coupons`: the bare except prints
\* and goes on, the else clause counts, the value of claim() is not looked at
Caught(d) == IF d.ret = "raise" THEN [d EXCEPT !.said = "Exception, Keep going!"] ELSE d

ClaimNext ==
    /\ cop = "claimCoupon" /\ returned = "no"
    /\ Len(visited) < Len(coupons)
    /\ LET d == Claim(coupons[Len(visited) + 1])
       IN /\ visited' = Append(visited, Caught(d))
          /\ good' = IF d.ret = "raise" THEN good ELSE good + 1
    /\ UNCHANGED <<cop, coupons, returned, flowVars, elemVars>>

\* line 843 `if not coupons: return 0` and line 899 `return good`
ClaimReturn ==
    /\ cop = "claimCoupon" /\ returned = "no"
    /\ Len(visited) = Len(coupons)
    /\ returned' = "value"
    /\ UNCHANGED <<cop, coupons, visited, good, flowVars, elemVars>>

\* ShopeeWeb.click, lines 801-814: nothing is done when the wait for the
\* element timed out (coupons empty); an exception of the fallback leaves
\* click()
Click ==
    /\ cop = "click" /\ returned = "no"
    /\ IF coupons = <<>>
       THEN /\ returned' = "value"
            /\ UNCHANGED visited
       ELSE LET d == TryClick(coupons[1], "element")
            IN /\ visited' = <<d>>
               /\ returned' = IF d.ret = "raise" THEN "raise" ELSE "value"
    /\ UNCHANGED <<cop, coupons, good, flowVars, elemVars>>

------------------------------------------------------------------------------
(* The machines *)

ElemIdle ==
    /\ h = NoHandle /\ origin = "none" /\ stale = FALSE /\ nops = 0
    /\ last = NoOp

FlowIdle ==
    /\ flow = "none" /\ pc = "idle"
    /\ env = [cookie |-> "absent", creds |-> FALSE, otp |-> FALSE, signal |-> "free"]
    /\ LoopIdle
    /\ budget = -1 /\ main = "flow" /\ others = 0
    /\ avatar = FALSE /\ smsModal = FALSE /\ driver = "open"
    /\ trace = <<>> /\ chk = <<>> /\ sms = "none"
    /\ loggedin = FALSE /\ pending = FALSE /\ action = "none" /\ result = "none"

CouponIdle ==
    /\ cop = "none" /\ coupons = <<>> /\ visited = <<>> /\ good = 0 /\ returned = "no"

Init == InitFlow /\ ElemIdle /\ CouponIdle

Next == CrawlerNext \/ ShopeeNext \/ MainMomo

Spec == Init /\ [][Next]_vars

\* the steps that wait for the user: input() at lines 617, 758, 779, 952,
\* 958, 966 and 981; every other step is the program's own and is taken
\* once the step before it has returned
Human == RunSmsInput \/ ShopeeLoginManual \/ ClaimCoinInput \/ CouponPrompt \/ PressEnter

Program ==
    \/ RunGetURL \/ RunCheckPopModal \/ RunLoginByCookie \/ RunCheckLogin1
    \/ RunLoginByPass \/ RunCheckLogin2 \/ RunCheckSMS \/ RunCheckLogin3
    \/ RunSaveCookie \/ RunClickCoin \/ RunClose
    \/ ShopeeLogin \/ ClaimCoinButton \/ CoinIter
    \/ CouponStart \/ CouponIter \/ CouponLoopExit
    \/ SalesOpen \/ SalesIter \/ SalesExit \/ PlainBody \/ Quit \/ MainMomo

\* the flows with the program running on by itself and the user free to
\* answer a prompt or not
FairSpec == Init /\ [][Next]_vars /\ WF_vars(Program)

\* a handle as the flows construct it: BoundElement(driver, method, target)
\* with the defaults of __init__, and a trapFunction or none
InitElem ==
    /\ FlowIdle
    /\ \E t \in Targets, f \in TrapFns \cup {"None"} :
          h = BoundElement("d1", "css", t, "one", TIMEOUT, "", f)
    /\ origin = "new" /\ stale = FALSE /\ nops = 0
    /\ last = NoOp
    /\ CouponIdle

NextElem ==
    DoSpawn \/ DoReinit \/ DoFind \/ DoFindAll \/ DoWait \/ DoUse \/ Adopt \/ Rerender

SpecElem == InitElem /\ [][NextElem]_vars

\* claimCoupon on every batch of at most MaxBatch coupons, click on an
\* element of every kind and on no element
InitCoupon ==
    /\ FlowIdle /\ ElemIdle
    /\ \/ cop = "claimCoupon" /\ coupons \in Batches
       \/ cop = "click" /\ coupons \in {<<>>} \cup {<<k>> : k \in ClickKinds}
    /\ visited = <<>> /\ good = 0 /\ returned = "no"

NextCoupon == ClaimNext \/ ClaimReturn \/ Click

SpecCoupon == InitCoupon /\ [][NextCoupon]_vars

------------------------------------------------------------------------------
(* Properties of the flows *)

IsRun == flow = "Crawler.run"
Done == pc = "done"
SomeCheckPassed == \E i \in DOMAIN chk : chk[i]
\* the run is past its login section: the cookie is being, or has been, saved
PastLogin == pc = "saveCookie" \/ Count("saveCookie") = 1
\* the events that may follow position i of the trace
After(i) == {trace[j] : j \in {k \in DOMAIN trace : k > i}}

\* C1: when the first checkLogin of Crawler.run finds the indicator (the
\* stored cookie was valid), the run is in its logged-in part and neither
\* loginByPass nor checkSMS has been or will be invoked, and no further
\* login check is made.
C1_CookieLoginSkipsCredentials ==
    (IsRun /\ Len(chk) >= 1 /\ chk[1])
        => /\ env.cookie = "valid"
           /\ PastLogin
           /\ Len(chk) = 1
           /\ Count("loginByPass") = 0
           /\ Count("submit") = 0
           /\ Count("checkSMS") = 0

C1_Witness ==
    IsRun /\ Done /\ Len(chk) = 1 /\ chk[1] /\ action = "ok" /\ result = "exit0"

\* C2: in Crawler.run, when the cookie check fails, the site asks for no
\* one-time code and accepts the submitted credentials, then the second
\* check finds the indicator, the run is in its logged-in part, loginByPass
\* ran exactly once (one submission) and checkSMS never runs.
C2_CredentialLoginOnce ==
    (IsRun /\ env.cookie # "valid" /\ env.creds /\ ~env.otp /\ Count("submit") >= 1)
        => /\ Count("loginByPass") = 1
           /\ Count("submit") = 1
           /\ Count("checkSMS") = 0
           /\ chk[1] = FALSE
           /\ (Len(chk) >= 2 => (chk[2] /\ Len(chk) = 2 /\ PastLogin))

C2_Witness ==
    /\ IsRun /\ Done /\ env.cookie = "stale" /\ env.creds /\ ~env.otp
    /\ chk = <<FALSE, TRUE>> /\ Count("loginByPass") = 1 /\ action = "ok"

\* C3: in Crawler.run, when the credentials were accepted, the one-time-code
\* prompt appeared and the submitted code did not produce the indicator, no
\* login check succeeds, saveCookie and clickCoin are never executed, close()
\* is called at most once, and exactly once when the run has ended.
C3_SmsFailedTerminal ==
    (IsRun /\ sms = "bad")
        => /\ ~SomeCheckPassed
           /\ Count("saveCookie") = 0
           /\ Count("clickCoin") = 0
           /\ Count("close") <= 1
           /\ (Count("close") = 1 => (Done /\ trace[Len(trace)] = "close"))
           /\ (Done => (Count("close") = 1 /\ driver = "closed"))

C3_Witness ==
    /\ IsRun /\ Done /\ sms = "bad" /\ env.creds /\ env.otp
    /\ Count("submitSMS") = 1 /\ Count("close") = 1 /\ driver = "closed"

\* C4: every flow that has ended, whether it returned, exited or let a fault
\* go on to its caller, has closed the browser session.
C4_ClosedOnEveryExit ==
    Done => driver = "closed"

\* C5: in Crawler.run loginByCookie, loginByPass and checkSMS are each invoked
\* at most once, and after a failed credential or one-time-code stage (the
\* handlers of loginByPass, the failure handler of checkSMS, or checkSMS
\* finding nothing to do after a failed check) only the last login check and
\* close() follow: no login stage, no submission, no cookie save, no claim;
\* and the ended run has closed the session exactly once.
FailureEvents == {"passFailed", "smsFailed", "noSMS"}
StageEvents == {"loginByCookie", "loginByPass", "submit", "checkSMS", "submitSMS",
                "saveCookie", "clickCoin"}

C5_AuthFailureTerminal ==
    IsRun =>
        /\ Count("loginByCookie") <= 1
        /\ Count("loginByPass") <= 1
        /\ Count("checkSMS") <= 1
        /\ \A i \in DOMAIN trace :
              trace[i] \in FailureEvents =>
                 /\ After(i) \cap StageEvents = {}
                 /\ ~SomeCheckPassed
                 /\ (Done => (Count("close") = 1 /\ driver = "closed"))

C5_Witness ==
    /\ IsRun /\ Done /\ Count("smsFailed") = 1 /\ Count("noSMS") = 1
    /\ Len(chk) = 3 /\ Count("close") = 1

\* the outcome a flow delivers when it logged in and its action completed
SuccessResult(f) == IF f = "Crawler.run" THEN "exit0" ELSE "None"
LoginFailedRun == Done /\ result # "uncaught" /\ Len(chk) >= 1 /\ ~SomeCheckPassed
ActionFailedRun == Done /\ result # "uncaught" /\ SomeCheckPassed /\ action = "failed"

\* C6: the outcome delivered to the caller of Crawler.run, execClaimCoin and
\* execClaimCoupon by a run whose login failed, or whose claim action failed,
\* differs from the outcome a successful run delivers.
C6_OutcomeDistinguishes ==
    (flow \in {"Crawler.run"} \cup LoginFlows /\ (LoginFailedRun \/ ActionFailedRun))
        => result # SuccessResult(flow)

\* C7: in Crawler.run and ShopeeWeb.login the cookie is saved exactly when a
\* login check succeeded: saveCookie has run only if some check returned
\* True, and once a check returned True the save is the next step of the
\* run or has been made (once).
C7_CookieSavedIffLoggedIn ==
    (flow \in {"Crawler.run"} \cup LoginFlows)
        => /\ (Count("saveCookie") > 0 => SomeCheckPassed)
           /\ (SomeCheckPassed => (pc = "saveCookie" \/ Count("saveCookie") = 1))
           /\ (SomeCheckPassed => chk[Len(chk)])

C7_Witness ==
    /\ flow \in LoginFlows /\ chk = <<FALSE, TRUE>> /\ Count("saveCookie") = 1 /\ Done

------------------------------------------------------------------------------
(* Properties of the element handle and of the fault-trapping executor *)

\* the trap function in force for the last call, spelled out
LastTrap ==
    IF last.arg.trapFunction # "None" THEN last.arg.trapFunction
    ELSE last.recv.trapFunction

\* the last call was a find or find_all whose query matched no element
ZeroMatchFind ==
    /\ last.op = "find" /\ last.raw.kind = "raise"
    /\ last.raw.exc.type = "NoSuchElementException"
ZeroMatchFindAll ==
    /\ last.op = "find_all" /\ last.raw.kind = "list" /\ last.raw.hs = <<>>

TrapTable ==
    [_trapTimeout |-> {"TimeoutException"},
     _trapNoSuchElement |-> {"NoSuchElementException", "StaleElementReferenceException"},
     _trapWaitGet |-> {"TimeoutException", "NoSuchElementException"}]

\* C9: a call of wait / find / find_all run under _trapTimeout,
\* _trapNoSuchElement or _trapWaitGet returns False exactly when the
\* operation raised a fault of a type that trap function handles; a fault of
\* another type reaches the caller as the exception the operation raised;
\* and when the operation raised nothing its result is returned as it is
\* and no trap function has been invoked.
C9_TrapOnlyHandledKinds ==
    (last.op \in {"wait", "find", "find_all"} /\ LastTrap \in DOMAIN TrapTable)
        => /\ (last.raw.kind # "raise" => (last.out = last.raw /\ last.trap = "None"))
           /\ (last.raw.kind = "raise" =>
                  /\ last.trap = LastTrap
                  /\ IF last.raw.exc.type \in TrapTable[LastTrap]
                     THEN last.out = RetFalse
                     ELSE last.out = last.raw)

C9_Witness ==
    /\ last.op = "find" /\ LastTrap = "_trapTimeout"
    /\ last.raw.kind = "raise" /\ last.raw.exc.type = "NoSuchElementException"
    /\ last.out = last.raw

\* C10: the handle spawn returns is unbound and carries no element
\* reference, whether or not the source handle was bound; and a find or
\* find_all called on a handle obtained from spawn looks up from the session
\* root.
C10_SpawnIsUnbound ==
    /\ last.op = "spawn" => (last.out.kind = "handle" /\ ~last.out.h.bound
                                /\ last.out.h.id = 0)
    /\ (origin = "spawn" /\ last.op \in {"find", "find_all"}) => last.scope = 0

C10_Witness ==
    /\ last.op = "spawn" /\ last.recv.bound /\ last.recv.id # 0
    /\ ~last.out.h.bound /\ last.out.h.id = 0

\* the elements the query of the receiver of the last call resolves to
Resolved == Match(last.recv.driver, 0, last.recv.method, last.recv.target)

\* C11 as claimed: a text or click issued on a handle whose bound flag is
\* false, or whose element has been detached, first resolves the handle's
\* query again, so that it takes effect on an element the query matches; and
\* a find on a handle whose element has been detached resolves again instead
\* of failing on the old reference.
C11_UseResolvesFirst ==
    /\ (last.op \in {"text", "click"} /\ (~last.recv.bound \/ stale) /\ Resolved # {})
          => (last.out.kind = "acted" /\ last.scope \in Resolved)
    /\ (last.op = "find" /\ last.recv.bound /\ stale)
          => last.raw.exc.type # "StaleElementReferenceException"

\* C20: when a wrapped operation (wait, find, find_all) raises, the trap
\* function invoked is the one passed with the call; when none is passed, it
\* is the trapFunction the receiver holds; when the receiver holds none
\* either, no trap function is invoked and the exception reaches the caller
\* as raised.
C20_TrapSelection ==
    (last.op \in {"wait", "find", "find_all"} /\ last.raw.kind = "raise")
        => /\ last.arg.trapFunction # "None" => last.trap = last.arg.trapFunction
           /\ (last.arg.trapFunction = "None" /\ last.recv.trapFunction # "None")
                 => last.trap = last.recv.trapFunction
           /\ (last.arg.trapFunction = "None" /\ last.recv.trapFunction = "None")
                 => (last.trap = "None" /\ last.out = last.raw)
           /\ last.trap # "None"
                 => last.out = (IF last.raw.exc.type \in TrapTable[last.trap]
                                THEN RetFalse ELSE last.raw)

C20_Witness ==
    /\ last.op = "find" /\ last.raw.kind = "raise"
    /\ last.raw.exc.type = "NoSuchElementException"
    /\ last.recv.trapFunction = "_trapTimeout"
    /\ last.arg.trapFunction = "_trapNoSuchElement"
    /\ last.out = RetFalse

\* number of coupons of the batch whose click is intercepted
Blocked == {i \in DOMAIN coupons : coupons[i] \in {"intercepted", "interceptedHard"}}
\* a batch with exactly one intercepted click, every other coupon claimable
OneBlocked ==
    /\ cop = "claimCoupon" /\ returned = "value"
    /\ Cardinality(Blocked) = 1
    /\ \A i \in DOMAIN coupons \ Blocked : coupons[i] = "claimable"

\* C15 as claimed: for a batch of K coupons with exactly one intercepted
\* click and every other coupon claimed normally, all K coupons are visited
\* and claimCoupon returns K-1.
C15_BlockedCouponSkipped ==
    OneBlocked => (Len(visited) = Len(coupons) /\ good = Len(coupons) - 1)

\* C15 amended: for such a batch all K coupons are visited and claimCoupon
\* returns; the count is K when the ActionChains click made for the
\* intercepted coupon succeeds (the coupon is claimed by the fallback and
\* counted), and K-1 only when that second click fails too.
C15_BlockedCouponCounted ==
    OneBlocked =>
        /\ Len(visited) = Len(coupons)
        /\ \A i \in Blocked :
              /\ visited[i].fallbacks = 1
              /\ good = (IF coupons[i] = "intercepted" THEN Len(coupons)
                         ELSE Len(coupons) - 1)

C15_Witness ==
    /\ OneBlocked /\ Len(coupons) = 3 /\ coupons[2] = "intercepted" /\ good = 3

\* C16 as claimed: when a click is intercepted exactly one ActionChains click
\* is attempted, and when that fails too the element is skipped with a line
\* printed and no exception leaves the operation, in claimCoupon and in
\* ShopeeWeb.click alike.
C16_FallbackFailureContained ==
    \A i \in DOMAIN visited :
        coupons[i] \in {"intercepted", "interceptedHard"}
            => /\ visited[i].fallbacks = 1
               /\ returned # "raise"
               /\ coupons[i] = "interceptedHard" => visited[i].said # ""

\* the inner loop of execClaimCoupon has just ended, its samples were all the
\* same value and all of them are in the history
ConstantCoupons ==
    /\ flow = "execClaimCoupon" /\ pc = "couponPrompt"
    /\ Len(samples) < MaxIters
    /\ \A i \in DOMAIN samples : samples[i] = samples[1]
\* the same for the loop of claimCoin and the texts it read
ConstantCoin ==
    /\ flow = "execClaimCoin" /\ pc = "coinClose" /\ reported # -1
    /\ Len(samples) < MaxIters
    /\ \A i \in DOMAIN samples : samples[i] = samples[1]

\* C12 as claimed: the coupon loop of execClaimCoupon, run with claimCoupon
\* returning the same count every time, ends after exactly repeatTimes turns
\* of its body with that count in found.
C12_ConstantStopsAfterN ==
    ConstantCoupons => (Len(samples) = repeatTimes /\ found = samples[1])

\* C12 amended: with claimCoupon returning the same count c every time the
\* coupon loop ends with found = c after exactly repeatTimes + 1 turns of its
\* body when c < maxCoupons (the first turn only sets the baseline, the next
\* repeatTimes turns repeat it) and after exactly 1 turn when c >= maxCoupons;
\* the loop of claimCoin, whose text reads are all the same value, ends after
\* exactly 1 turn (two reads in the turn, two after it) and logs that value.
C12_ConstantStopsAfterBaseline ==
    /\ ConstantCoupons =>
          /\ found = samples[1]
          /\ Len(samples) = (IF found >= maxCoupons THEN 1 ELSE repeatTimes + 1)
    /\ ConstantCoin => (Len(samples) = 4 /\ reported = samples[1])

C12_Witness ==
    ConstantCoupons /\ found = 1 /\ Len(samples) = repeatTimes + 1 /\ repeat = repeatTimes

\* one of the three loops is running
InLoop == pc \in {"coinLoop", "salesLoop", "couponLoop"}

\* C13 as claimed: a loop whose sampled value changes at every sample still
\* ends: the coin-value loop of claimCoin, the page-height loop of listSales
\* and the claimed-count loop of execClaimCoupon each leave the loop.
C13_ChangingSignalTerminates == (env.signal = "changing" /\ InLoop) ~> ~InLoop

\* number of samples at the end of the history that equal the last one
RECURSIVE RunLength(_)
RunLength(seq) ==
    IF Len(seq) <= 1 THEN Len(seq)
    ELSE IF seq[Len(seq)] # seq[Len(seq) - 1] THEN 1
    ELSE 1 + RunLength(SubSeq(seq, 1, Len(seq) - 1))

\* C14: in the coupon loop of execClaimCoupon a turn whose count differs from
\* the one before sets repeat to 0 and a turn whose count equals it adds
\* exactly one; and at every loop test repeat is the number of latest turns
\* in a row that repeated the baseline (the turn that set the baseline not
\* counted), last_found being the latest count.
C14_RepeatCountsStableTurns ==
    /\ [][(pc = "couponLoop" /\ pc' = "couponLoop")
            => repeat' = (IF found' = last_found THEN repeat + 1 ELSE 0)]_vars
    /\ []((flow = "execClaimCoupon" /\ pc \in {"couponLoop", "couponPrompt"}
             /\ Len(samples) < MaxIters)
            => IF samples = <<>> THEN repeat = 0 /\ last_found = -1
               ELSE /\ repeat = RunLength(samples) - 1
                    /\ last_found = samples[Len(samples)])

C14_Witness ==
    /\ pc = "couponLoop" /\ samples = <<0, 1, 1, 1>> /\ repeat = 2

\* C17 as claimed: once checkSMS waits for the code, the run leaves that
\* stage, whether or not a code is ever typed.
C17_SmsStageBounded == (pc = "smsInput") ~> (pc # "smsInput")

\* C19 as claimed: when the wait for the popup close button of listSales
\* times out and is trapped to False, listSales goes on with the carousel
\* button and the items, and no exception ends it there.
C19_AbsentPopupContinues ==
    (flow = "execListSales" /\ Count("noPopup") = 1)
        => /\ Count("AttributeError") = 0
           /\ Count("carousel") + Count("noCarousel") = 1

\* the samples rise once and stay at the higher value for 2 samples or more
RisesOnceThenSteady(seq) ==
    \E k \in 1..(Len(seq) - 2) :
        /\ \A i \in 1..k : seq[i] = seq[1]
        /\ \A i \in (k + 1)..Len(seq) : seq[i] = seq[Len(seq)]
        /\ seq[1] < seq[Len(seq)]

\* no stored cookie, and the second login check (after the credentials were
\* given: loginByPass in Crawler.run, by hand in ShopeeWeb.login) passed
CredentialLogin == env.cookie = "absent" /\ chk = <<FALSE, TRUE>>

Returned ==
    IF last.out.kind = "handle" THEN {last.out.h}
    ELSE {last.out.hs[i] : i \in DOMAIN last.out.hs}

\* C21: after wait, find or find_all was called with a trapFunction, the
\* receiver is what it was before the call, its trapFunction included, and
\* every handle the call returned carries the trapFunction the receiver
\* holds, not the one passed with the call.
C21_CallTrapNotPersisted ==
    (last.op \in {"wait", "find", "find_all"} /\ last.arg.trapFunction # "None")
        => /\ h = last.recv
           /\ \A x \in Returned : x.trapFunction = last.recv.trapFunction

C21_Witness ==
    /\ last.op = "find" /\ last.arg.trapFunction = "_trapNoSuchElement"
    /\ last.recv.trapFunction = "_trapTimeout" /\ last.out.kind = "handle"
    /\ last.out.h.trapFunction = "_trapTimeout" /\ h.trapFunction = "_trapTimeout"

\* the value of a field of the handle spawn returned, were every argument
\* given (not None) to override the source's
Overridden(given, arg, source) == IF given THEN arg ELSE source

\* C22 as claimed: in the handle spawn returns every field given an argument
\* has the argument's value, a timeout of 0 and an empty message included,
\* every other field has the source's value, and the source is unchanged.
C22_SpawnAppliesOverrides ==
    last.op = "spawn"
        => LET a == last.arg
               x == last.recv
               n == last.out.h
           IN /\ h = x
              /\ n.target = a.target
              /\ n.method = Overridden(a.method # "None", a.method, x.method)
              /\ n.driver = Overridden(a.driver # "None", a.driver, x.driver)
              /\ n.condition = Overridden(a.condition # "None", a.condition, x.condition)
              /\ n.timeout = Overridden(a.timeout # -1, a.timeout, x.timeout)
              /\ n.message = Overridden(a.message # "None", a.message, x.message)
              /\ n.trapFunction =
                    Overridden(a.trapFunction # "None", a.trapFunction, x.trapFunction)

\* C23: find and find_all look up under the element of the receiver when it
\* is bound and under the session root when it is not; every handle they
\* return is bound to an element that matches there; and the receiver, its
\* bound flag included, is what it was before the call.
C23_FindScoping ==
    last.op \in {"find", "find_all"}
        => LET x == last.recv
               t == IF last.arg.target # "None" THEN last.arg.target ELSE x.target
               m == IF last.arg.method # "None" THEN last.arg.method ELSE x.method
               scope == IF x.bound THEN x.id ELSE 0
           IN /\ last.scope = scope
              /\ \A n \in Returned : n.bound /\ n.id \in Match(x.driver, scope, m, t)
              /\ last.raw.kind = "list" => Len(last.raw.hs) = Cardinality(Match(x.driver, scope, m, t))
              /\ h = x

C23_Witness ==
    /\ last.op = "find" /\ last.recv.bound /\ last.recv.id = 1
    /\ last.scope = 1 /\ last.out.kind = "handle" /\ last.out.h.id = 3 /\ last.out.h.bound

\* C24 as claimed: a wait called on a bound handle evaluates its condition
\* within the element of that handle, as find does.
C24_WaitScopedToHandle ==
    (last.op = "wait" /\ last.recv.bound) => last.scope = last.recv.id

\* C24 amended: wait evaluates its condition on the whole session, whether
\* or not the receiver is bound: the handles it returns are bound to
\* elements that match method and target from the session root, and it times
\* out exactly when nothing matches there.
C24_WaitScopedToSession ==
    (last.op = "wait" /\ last.raw # Glitch)
        => LET x == last.recv
               all == Match(x.driver, 0, x.method, x.target)
           IN /\ last.scope = 0
              /\ \A n \in Returned : n.bound /\ n.id \in all
              /\ (last.raw.kind = "raise") = (all = {})

C24_Witness ==
    /\ last.op = "wait" /\ last.recv.bound /\ last.recv.id = 1
    /\ last.recv.target = "a" /\ last.out.kind = "handle" /\ last.out.h.id = 1

\* C27 as claimed: claimCoin ends with True or False, and with no exception,
\* whenever a wait for the coin button timed out, the waits after the click
\* on the login or check-in button included: the False such a wait returned
\* is never the receiver of .text, .click or .spawn.
C27_TrappedWaitNeverDereferenced ==
    (flow = "execClaimCoin" /\ Count("claimCoin") = 1)
        => Count("AttributeError") = 0

\* C29 as claimed: the count claimCoupon returns is the number of coupons
\* whose claim step returned True and whose click, if any, raised nothing
\* but a click interception.
C29_CountIsSuccesses ==
    (cop = "claimCoupon" /\ returned = "value")
        => good = Cardinality({i \in DOMAIN visited :
                                  visited[i].ret = "True" /\ coupons[i] # "clickError"})

\* C25: once driver.close() or driver.quit() has been called the flow is
\* over: the close is the last thing the flow did, nothing is done on the
\* driver after it and no second close or quit is made, in Crawler.run
\* (close() reached from run, loginByPass, checkSMS or clickCoin) and in the
\* exec* flows.
C25_NothingAfterClose ==
    /\ \A i \in DOMAIN trace : trace[i] \in {"close", "quit"} => i = Len(trace)
    /\ Count("close") + Count("quit") <= 1
    /\ driver = "closed" => (Done /\ Count("close") + Count("quit") = 1)

C25_Witness ==
    /\ IsRun /\ Done /\ driver = "closed" /\ Count("passFailed") = 1
    /\ trace[Len(trace)] = "close" /\ Count("saveCookie") = 0

\* the flow is at, or past, its claim action
ClaimStarted ==
    \/ Count("claimCoin") + Count("click") >= 1
    \/ pc \in {"coinInput", "coinLoop", "coinClose", "couponInput", "couponLoop",
               "couponPrompt"}

C28_BudgetIsCallers ==
    (flow \in LoginFlows /\ budget # -1) => budget = ContextTimeout(flow)

\* C30: at most one browser session is open at any time: when main's default
\* path has constructed MomoWeb, no session of an earlier object is open, and
\* the flows construct no session of their own
SessionsOpen == others + (IF driver = "open" THEN 1 ELSE 0)

C30_OneSession ==
    /\ SessionsOpen <= 1
    /\ main = "momo" => others = 0

C30_Witness ==
    /\ main = "momo" /\ flow = "execDailyTask" /\ pc = "quit"
    /\ driver = "open" /\ others = 0 /\ trace = <<"task">>

====
